---------------------------- MODULE Spec2Model ----------------------------
(***************************************************************************)
(* Model of tree.py: the directory scanner that renders an ASCII tree,     *)
(* counts files, directories and lines, and writes a report.               *)
(*                                                                         *)
(* Strings are sequences of one-character strings.  The box-drawing        *)
(* glyphs of the connectors are written by their code points ("U+2514").   *)
(* A filesystem is a function from node ids 0..n (0 is the scan root) to   *)
(* records; the scan is a state machine over an explicit call stack of     *)
(* build_tree frames.                                                      *)
(***************************************************************************)
EXTENDS Integers, Sequences, FiniteSets, TLC

(***************************************************************************)
(* Bounds of the model.                                                    *)
(***************************************************************************)
MaxScans == 2
MaxPatterns == 1
MaxPermLen == 3
MaxDepth == 6

(***************************************************************************)
(* Program constant: the heartbeat period of build_tree.                   *)
(***************************************************************************)
ProgressEvery == 200

(***************************************************************************)
(* Characters.  Ord gives the code point of the characters that occur in   *)
(* entry names; str.lower() maps 65..90 to 97..122.                        *)
(***************************************************************************)
UpperLetters == <<"A","B","C","D","E","F","G","H","I","J","K","L","M",
                  "N","O","P","Q","R","S","T","U","V","W","X","Y","Z">>
LowerLetters == <<"a","b","c","d","e","f","g","h","i","j","k","l","m",
                  "n","o","p","q","r","s","t","u","v","w","x","y","z">>
Digits == <<"0","1","2","3","4","5","6","7","8","9">>

NameChars == {UpperLetters[i] : i \in 1..26} \cup {LowerLetters[i] : i \in 1..26}
             \cup {Digits[i] : i \in 1..10} \cup {".", "_", "-"}

Ord == [c \in NameChars |->
          IF \E i \in 1..26 : UpperLetters[i] = c
            THEN 64 + (CHOOSE i \in 1..26 : UpperLetters[i] = c)
          ELSE IF \E i \in 1..26 : LowerLetters[i] = c
            THEN 96 + (CHOOSE i \in 1..26 : LowerLetters[i] = c)
          ELSE IF \E i \in 1..10 : Digits[i] = c
            THEN 47 + (CHOOSE i \in 1..10 : Digits[i] = c)
          ELSE IF c = "." THEN 46
          ELSE IF c = "-" THEN 45
          ELSE 95]

\* p.name.lower(), as the sequence of code points that Python compares
LowerKey(name) ==
    [i \in 1..Len(name) |->
        LET o == Ord[name[i]] IN IF o >= 65 /\ o <= 90 THEN o + 32 ELSE o]

\* s < t for sequences of integers, as Python compares strings
RECURSIVE SeqLess(_, _)
SeqLess(s, t) ==
    IF t = <<>> THEN FALSE
    ELSE IF s = <<>> THEN TRUE
    ELSE IF Head(s) < Head(t) THEN TRUE
    ELSE IF Head(s) > Head(t) THEN FALSE
    ELSE SeqLess(Tail(s), Tail(t))

StartsWith(s, p) == Len(p) <= Len(s) /\ SubSeq(s, 1, Len(p)) = p
EndsWith(s, p) == Len(p) <= Len(s) /\ SubSeq(s, Len(s) - Len(p) + 1, Len(s)) = p

RECURSIVE Concat(_)
Concat(ss) == IF ss = <<>> THEN <<>> ELSE Head(ss) \o Concat(Tail(ss))


Join(comps) ==
    Concat([i \in 1..Len(comps) |->
              IF i = 1 THEN comps[i] ELSE <<"/">> \o comps[i]])

(***************************************************************************)
(* Filesystems.  A node has a parent, a name, a kind ("dir", "file",       *)
(* "symlink", or "other" for a socket: neither is_file() nor is_dir()), a  *)
(* symlink target (-1: dangling), a content (bytes: "a", "LF", "CR", and   *)
(* "xFF", a byte that is not valid UTF-8), and a flag `denied` (listing    *)
(* the directory, or opening the file, raises PermissionError).            *)
(***************************************************************************)
D(p, nm) == [parent |-> p, name |-> nm, kind |-> "dir", target |-> 0,
             content |-> <<>>, denied |-> FALSE]
DX(p, nm) == [parent |-> p, name |-> nm, kind |-> "dir", target |-> 0,
              content |-> <<>>, denied |-> TRUE]
F(p, nm, c) == [parent |-> p, name |-> nm, kind |-> "file", target |-> 0,
                content |-> c, denied |-> FALSE]
FX(p, nm, c) == [parent |-> p, name |-> nm, kind |-> "file", target |-> 0,
                 content |-> c, denied |-> TRUE]
L(p, nm, t) == [parent |-> p, name |-> nm, kind |-> "symlink", target |-> t,
                content |-> <<>>, denied |-> FALSE]
O(p, nm) == [parent |-> p, name |-> nm, kind |-> "other", target |-> 0,
             content |-> <<>>, denied |-> FALSE]

MkTree(s) == [i \in 0..(Len(s) - 1) |-> s[i + 1]]

ThreeLines == <<"a","LF","a","LF","a","LF">>
FiveLines == <<"a","LF","a","LF","a","LF","a","LF","a">>
OneLine == <<"a","LF">>
Binary == <<"xFF","LF","xFF","a","LF">>
CrLf == <<"a","CR","LF","a","CR","a">>

\* a.txt (3 lines) and sub/b.txt (5 lines)
TreeExample == MkTree(<<
    D(0, <<"p","r","o","j">>),
    F(0, <<"a",".","t","x","t">>, ThreeLines),
    D(0, <<"s","u","b">>),
    F(2, <<"b",".","t","x","t">>, FiveLines) >>)

\* names that differ in case, and names that differ only in case
TreeCase == MkTree(<<
    D(0, <<"c","a","s","e">>),
    F(0, <<"B","a","n","a","n","a">>, OneLine),
    F(0, <<"a","p","p","l","e">>, <<>>),
    D(0, <<"Z","e","d">>),
    D(0, <<"b","e","t","a">>),
    F(3, <<"r","e","a","d","m","e">>, OneLine),
    F(3, <<"R","E","A","D","M","E">>, ThreeLines),
    O(0, <<"a","g","e","n","t">>) >>)

\* a build directory, siblings whose names begin with "build", nested logs
TreeBuild == MkTree(<<
    D(0, <<"a","p","p">>),
    D(0, <<"b","u","i","l","d">>),
    F(1, <<"o","u","t",".","l","o","g">>, ThreeLines),
    D(1, <<"s","u","b">>),
    F(3, <<"x">>, OneLine),
    F(0, <<"b","u","i","l","d","e","r",".","p","y">>, OneLine),
    D(0, <<"b","u","i","l","d","_","n","o","t","e","s">>),
    F(6, <<"n",".","l","o","g">>, OneLine),
    F(0, <<"a","p","p",".","l","o","g">>, FiveLines) >>)

\* symlinks to an ancestor, to itself, to a directory, to a file, to nothing
TreeLinks == MkTree(<<
    D(0, <<"l","n","k">>),
    D(0, <<"a">>),
    L(1, <<"u","p">>, 0),
    L(1, <<"s","e","l","f">>, 3),
    F(1, <<"f">>, OneLine),
    L(0, <<"l","a">>, 1),
    L(0, <<"l","f">>, 4),
    L(0, <<"g","o","n","e">>, -1) >>)

\* a directory that cannot be listed, files that cannot be read or decoded
TreeDenied == MkTree(<<
    D(0, <<"d","e","n">>),
    DX(0, <<"l","o","c","k","e","d">>),
    F(1, <<"s","e","c","r","e","t">>, ThreeLines),
    D(1, <<"i","n","n","e","r">>),
    D(0, <<"o","p","e","n">>),
    F(4, <<"o","k">>, CrLf),
    FX(0, <<"n","o","p","e","r","m">>, FiveLines),
    F(0, <<"b","i","n">>, Binary),
    O(0, <<"s","o","c","k">>),
    F(0, <<"z">>, OneLine) >>)

\* a scan root that cannot be listed
TreeRootDenied == MkTree(<<
    DX(0, <<"r">>),
    F(0, <<"f">>, OneLine) >>)

\* depth three, with a directory in the middle that cannot be listed
TreeDeep == MkTree(<<
    D(0, <<"d","e","e","p">>),
    D(0, <<"a">>),
    D(1, <<"b">>),
    D(2, <<"c">>),
    F(3, <<"l","e","a","f",".","l","o","g">>, OneLine),
    DX(1, <<"q">>),
    F(5, <<"h","i","d","d","e","n">>, OneLine),
    F(1, <<"t","a","i","l">>, Binary) >>)

\* the cases together: a symlink to the root and an unlistable directory in
\* a subdirectory, names that differ only in case, a socket, a symlink whose
\* name is that of a directory pattern
TreeMixed == MkTree(<<
    D(0, <<"m","i","x">>),
    D(0, <<"s","u","b">>),
    L(1, <<"u","p">>, 0),
    DX(1, <<"b","u","i","l","d">>),
    F(3, <<"x",".","l","o","g">>, OneLine),
    F(1, <<"B">>, OneLine),
    F(1, <<"b">>, Binary),
    F(0, <<"s","u","b",".","l","o","g">>, CrLf),
    L(0, <<"b","u","i","l","d">>, 3),
    O(1, <<"s">>) >>)

\* a directory c that cannot be listed, a directory d with k files, then r
\* files in the root
NumName(i) == <<"f", Digits[(i \div 100) + 1], Digits[((i \div 10) % 10) + 1],
                Digits[(i % 10) + 1]>>
BigTree(k, r) ==
    [i \in 0..(2 + k + r) |->
        IF i = 0 THEN D(0, <<"b","i","g">>)
        ELSE IF i = 1 THEN DX(0, <<"c">>)
        ELSE IF i = 2 THEN D(0, <<"d">>)
        ELSE IF i <= k + 2 THEN F(2, NumName(i - 2), OneLine)
        ELSE F(0, NumName(i - 2), <<>>)]

TreeBigA == BigTree(ProgressEvery, 1)
TreeBigB == BigTree(ProgressEvery - 1, 2)

Trees == <<TreeExample, TreeCase, TreeBuild, TreeLinks, TreeDenied,
           TreeRootDenied, TreeDeep, TreeMixed, TreeBigA, TreeBigB>>
SmallTrees == {i \in 1..Len(Trees) : Cardinality(DOMAIN Trees[i]) < ProgressEvery}
BigTrees == {i \in 1..Len(Trees) : Cardinality(DOMAIN Trees[i]) >= ProgressEvery}

(***************************************************************************)
(* Ignore patterns (the lines load_ignore_patterns keeps).  The pool has   *)
(* directory-prefix patterns and globs with `*` and `?`; no pattern of the *)
(* pool uses a bracket expression.                                         *)
(***************************************************************************)
PatternPool == <<
    <<"b","u","i","l","d","/">>,
    <<"*",".","l","o","g">>,
    <<"*","/","*",".","l","o","g">>,
    <<"a","/","b","/">>,
    <<"?">>,
    <<"s","u","b">> >>

RECURSIVE PatternLists(_)
PatternLists(n) ==
    IF n = 0 THEN {<<>>}
    ELSE PatternLists(n - 1) \cup
         {Append(l, PatternPool[i]) :
            l \in {x \in PatternLists(n - 1) : Len(x) = n - 1},
            i \in 1..Len(PatternPool)}

(***************************************************************************)
(* pathlib on a filesystem fs.  is_dir() and is_file() follow symlinks; a  *)
(* chain longer than the number of nodes is a loop (ELOOP: both False).    *)
(***************************************************************************)
RECURSIVE Follow(_, _, _)
Follow(fs, n, fuel) ==
    IF n = -1 THEN -1
    ELSE IF fs[n].kind # "symlink" THEN n
    ELSE IF fuel = 0 THEN -1
    ELSE Follow(fs, fs[n].target, fuel - 1)

Resolve(fs, n) == Follow(fs, n, Cardinality(DOMAIN fs))

never_symlink(fs, n) == FALSE
is_symlink(fs, n) == fs[n].kind = "symlink"
is_dir(fs, n) == Resolve(fs, n) # -1 /\ fs[Resolve(fs, n)].kind = "dir"
is_file(fs, n) == Resolve(fs, n) # -1 /\ fs[Resolve(fs, n)].kind = "file"

\* the nodes path.iterdir() yields for the directory that node n leads to
Children(fs, n) == {c \in DOMAIN fs : c # 0 /\ fs[c].parent = Resolve(fs, n)}

(***************************************************************************)
(* fnmatch.fnmatch(name, pat) on POSIX: `*` is the regular expression .*   *)
(* under DOTALL, `?` is one character, anything else is itself.            *)
(***************************************************************************)
StarNoSlash(run) == \A i \in 1..Len(run) : run[i] # "/"
StarAccepts(run) == TRUE

RECURSIVE fnmatch(_, _)
fnmatch(name, pat) ==
    IF pat = <<>> THEN name = <<>>
    ELSE IF Head(pat) = "*" THEN
        \E k \in 0..Len(name) :
            /\ StarAccepts(SubSeq(name, 1, k))
            /\ fnmatch(SubSeq(name, k + 1, Len(name)), Tail(pat))
    ELSE IF Head(pat) = "?" THEN
        name # <<>> /\ fnmatch(Tail(name), Tail(pat))
    ELSE name # <<>> /\ Head(name) = Head(pat) /\ fnmatch(Tail(name), Tail(pat))

\* pattern.endswith("/") and rel.startswith(pattern[:-1])
NoDirIgnore(rel, pattern) == FALSE
DirIgnore(rel, pattern) ==
    /\ pattern # <<>>
    /\ pattern[Len(pattern)] = "/"
    /\ StartsWith(rel, SubSeq(pattern, 1, Len(pattern) - 1))

\* rel is the root-relative path in posix form
RECURSIVE is_ignored(_, _)
is_ignored(rel, patterns) ==
    IF patterns = <<>> THEN FALSE
    ELSE IF DirIgnore(rel, Head(patterns)) THEN TRUE
    ELSE IF fnmatch(rel, Head(patterns)) THEN TRUE
    ELSE is_ignored(rel, Tail(patterns))

(***************************************************************************)
(* sorted(..., key=lambda p: (p.is_file(), p.name.lower())): a stable sort *)
(* of the entries in the order iterdir() yielded them.                     *)
(***************************************************************************)
RawName(name) == [i \in 1..Len(name) |-> Ord[name[i]]]
SortName(name) == LowerKey(name)

SortKey(fs, n) == <<IF is_file(fs, n) THEN 1 ELSE 0, SortName(fs[n].name)>>

KeyLess(a, b) == a[1] < b[1] \/ (a[1] = b[1] /\ SeqLess(a[2], b[2]))

\* the stable sort, by rank: an entry comes after the entries with a smaller
\* key and after the entries with an equal key that were listed before it
Rank(key) ==
    [i \in DOMAIN key |->
        Cardinality({j \in DOMAIN key :
            \/ KeyLess(key[j], key[i])
            \/ (j < i /\ ~KeyLess(key[i], key[j]))})]

Place(s, rank) == [k \in DOMAIN s |-> s[CHOOSE i \in DOMAIN s : rank[i] = k - 1]]

sorted(fs, s) ==
    IF s = <<>> THEN <<>>
    ELSE CHOOSE r \in {Place(s, rank) :
                   rank \in {Rank(key) :
                      key \in {[i \in DOMAIN s |-> SortKey(fs, s[i])]}}} : TRUE

(***************************************************************************)
(* Reading a file: open(..., encoding="utf-8", errors="ignore") drops the  *)
(* bytes that are not valid UTF-8; iterating the file yields one line per  *)
(* terminator (LF, CR or CR LF under universal newlines) and one for an    *)
(* unterminated tail.  Opening raises for a file without read permission   *)
(* and for a socket.                                                       *)
(***************************************************************************)
Valid(b) == b # "xFF"

DecodeStrict(bytes) ==
    IF \E i \in 1..Len(bytes) : ~Valid(bytes[i])
    THEN [raised |-> "UnicodeDecodeError", text |-> <<>>]
    ELSE [raised |-> "", text |-> bytes]
Decode(bytes) == [raised |-> "", text |-> SelectSeq(bytes, Valid)]

RECURSIVE CountLines(_)
CountLines(t) ==
    IF t = <<>> THEN 0
    ELSE IF Head(t) = "LF" THEN 1 + CountLines(Tail(t))
    ELSE IF Head(t) = "CR" THEN
        1 + CountLines(IF Tail(t) # <<>> /\ Head(Tail(t)) = "LF"
                       THEN Tail(Tail(t)) ELSE Tail(t))
    ELSE IF Tail(t) = <<>> THEN 1
    ELSE CountLines(Tail(t))

\* the outcome of lines 99-100 for entry n: an exception, or a line count
ReadLines(fs, n) ==
    LET r == Resolve(fs, n) IN
    IF r = -1 THEN [raised |-> "FileNotFoundError", count |-> 0]
    ELSE IF fs[r].kind = "other" THEN [raised |-> "OSError", count |-> 0]
    ELSE IF fs[r].denied THEN [raised |-> "PermissionError", count |-> 0]
    ELSE LET d == Decode(fs[r].content) IN
         IF d.raised # "" THEN [raised |-> d.raised, count |-> 0]
         ELSE [raised |-> "", count |-> CountLines(d.text)]

\* the exceptions the two handlers of build_tree catch
CatchNothing(exc) == FALSE
ExceptPermissionError(exc) == exc = "PermissionError"
ExceptException(exc) == TRUE

\* the heartbeat test of line 105
HeartbeatNoGuard(fc) == fc % ProgressEvery = 0
Heartbeat(fc) == fc % ProgressEvery = 0 /\ fc > 0

\* the glyphs of lines 89 and 94
Connector(last) ==
    IF last THEN <<"U+2514","U+2500","U+2500"," ">>
    ELSE <<"U+251C","U+2500","U+2500"," ">>
Extension(last) ==
    IF last THEN <<" "," "," "," ">> ELSE <<"U+2502"," "," "," ">>

(***************************************************************************)
(* State.                                                                  *)
(*   fsid, ignore   the filesystem under the scan root and the patterns    *)
(*                  load_ignore_patterns returned (fixed for a behaviour)  *)
(*   pc             "idle" (module loaded), "scanning" (inside main),      *)
(*                  "done" (main returned), "crashed" (uncaught exception) *)
(*   stack          the active calls of build_tree, innermost last         *)
(*   file_count, dir_count, line_count   the module's global counters      *)
(*   progress       the heartbeat lines printed by the current main()      *)
(*   reports        the reports written so far, one per completed main()   *)
(*   start          the counters' values when the current main() began     *)
(*   calls          the nodes build_tree was called on by this main()      *)
(* A tree line is kept with the node it was emitted for (`node` is not     *)
(* part of the program's output; `text` is).                               *)
(***************************************************************************)
VARIABLES fsid, ignore, pc, stack, file_count, dir_count, line_count,
          progress, reports, start, calls

vars == <<fsid, ignore, pc, stack, file_count, dir_count, line_count,
          progress, reports, start, calls>>

FS == Trees[fsid]

Counters == [files |-> file_count, dirs |-> dir_count, lines |-> line_count]

\* the orders in which iterdir() may yield the set S of children
Ascending(S, top) ==
    LET In(i) == i \in S IN SelectSeq([i \in 1..top |-> i], In)
Reverse(s) == [i \in 1..Len(s) |-> s[Len(s) + 1 - i]]
ListingOrders(S, top) ==
    IF Cardinality(S) <= MaxPermLen
    THEN {s \in [1..Cardinality(S) -> S] :
            \A i, j \in 1..Cardinality(S) : i # j => s[i] # s[j]}
    ELSE {Ascending(S, top), Reverse(Ascending(S, top))}

\* a new call of build_tree: nothing listed, no line yet (line 75)
FrameSkipFirst(n, rel, prefix) ==
    [node |-> n, rel |-> rel, prefix |-> prefix, listed |-> FALSE,
     entries |-> <<>>, index |-> 2, lines |-> <<>>]
Frame(n, rel, prefix) ==
    [node |-> n, rel |-> rel, prefix |-> prefix, listed |-> FALSE,
     entries |-> <<>>, index |-> 1, lines |-> <<>>]

Top == stack[Len(stack)]
Rest == SubSeq(stack, 1, Len(stack) - 1)

\* lines 67-69: the module is loaded, for a filesystem and an ignore list
InitWith(trees, lists) ==
    /\ fsid \in trees
    /\ ignore \in lists
    /\ pc = "idle"
    /\ stack = <<>>
    /\ file_count = 0
    /\ dir_count = 0
    /\ line_count = 0
    /\ progress = <<>>
    /\ reports = <<>>
    /\ start = [files |-> 0, dirs |-> 0, lines |-> 0]
    /\ calls = <<>>

Init == InitWith(SmallTrees, PatternLists(MaxPatterns))

\* the trees with enough files for the heartbeat, scanned without patterns
InitBig == InitWith(BigTrees, {<<>>})

\* lines 116-130: main() starts a scan; it does not reset the counters
Main ==
    /\ pc \in {"idle", "done"}
    /\ Len(reports) < MaxScans
    /\ pc' = "scanning"
    /\ stack' = <<Frame(0, <<>>, <<>>)>>
    /\ start' = Counters
    /\ progress' = <<>>
    /\ calls' = <<0>>
    /\ UNCHANGED <<fsid, ignore, file_count, dir_count, line_count, reports>>

\* the script is run again in a new process: lines 67-69 execute again
Restart ==
    /\ pc \in {"done", "crashed"}
    /\ Len(reports) < MaxScans
    /\ pc' = "idle"
    /\ stack' = <<>>
    /\ file_count' = 0
    /\ dir_count' = 0
    /\ line_count' = 0
    /\ progress' = <<>>
    /\ start' = [files |-> 0, dirs |-> 0, lines |-> 0]
    /\ calls' = <<>>
    /\ UNCHANGED <<fsid, ignore, reports>>

\* an exception no handler catches ends main()
Crash ==
    /\ pc' = "crashed"
    /\ stack' = <<>>
    /\ UNCHANGED <<progress, reports>>

\* build_tree returns `ret` to the frames `rest` below it: to line 95 of its
\* caller (lines.extend, then the heartbeat of lines 105-106 and the next
\* entry), or to line 130 of main, which goes on to write the report
Resume(rest, ret) ==
    IF rest = <<>>
    THEN /\ pc' = "done"
         /\ stack' = <<>>
         /\ reports' = Append(reports,
                [tree_lines |-> <<[text |-> FS[0].name, node |-> 0]>> \o ret,
                 dirs |-> dir_count, files |-> file_count, lines |-> line_count,
                 start |-> start, progress |-> progress, calls |-> calls])
         /\ UNCHANGED progress
    ELSE LET caller == rest[Len(rest)] IN
         /\ pc' = pc
         /\ stack' = [rest EXCEPT ![Len(rest)] =
                        [caller EXCEPT !.lines = caller.lines \o ret,
                                       !.index = caller.index + 1]]
         /\ progress' = IF Heartbeat(file_count)
                        THEN Append(progress, Counters) ELSE progress
         /\ UNCHANGED reports

\* lines 77-84: the listing succeeds; symlinks and ignored entries are dropped
ListDir ==
    /\ pc = "scanning"
    /\ ~Top.listed
    /\ ~FS[Resolve(FS, Top.node)].denied
    /\ \E order \in ListingOrders(Children(FS, Top.node), Cardinality(DOMAIN FS)) :
         LET Keep(e) == /\ ~is_symlink(FS, e)
                        /\ ~is_ignored(Join(Append(Top.rel, FS[e].name)), ignore)
         IN stack' = [stack EXCEPT ![Len(stack)] =
                        [Top EXCEPT !.listed = TRUE,
                                    !.entries = sorted(FS, SelectSeq(order, Keep))]]
    /\ UNCHANGED <<fsid, ignore, pc, file_count, dir_count, line_count,
                   progress, reports, start, calls>>

\* lines 85-86: the listing raises PermissionError
ListDenied ==
    /\ pc = "scanning"
    /\ ~Top.listed
    /\ FS[Resolve(FS, Top.node)].denied
    /\ IF ExceptPermissionError("PermissionError")
       THEN Resume(Rest, Top.lines)
       ELSE Crash
    /\ UNCHANGED <<fsid, ignore, file_count, dir_count, line_count, start, calls>>

Entry == Top.entries[Top.index]
IsLast == Top.index = Len(Top.entries)
TreeLine == [text |-> Top.prefix \o Connector(IsLast) \o FS[Entry].name,
             node |-> Entry]

\* lines 88-95: the entry is a directory: its line, dir_count, the descent
VisitDir ==
    /\ pc = "scanning"
    /\ Top.listed
    /\ Top.index <= Len(Top.entries)
    /\ is_dir(FS, Entry)
    /\ Len(stack) < MaxDepth
    /\ dir_count' = dir_count + 1
    /\ stack' = Append([stack EXCEPT ![Len(stack)] =
                          [Top EXCEPT !.lines = Append(Top.lines, TreeLine)]],
                       Frame(Entry, Append(Top.rel, FS[Entry].name),
                             Top.prefix \o Extension(IsLast)))
    /\ calls' = Append(calls, Entry)
    /\ UNCHANGED <<fsid, ignore, pc, file_count, line_count, progress,
                   reports, start>>

\* lines 88-91 and 96-106: the entry is not a directory: its line, file_count,
\* the line count of its content, the heartbeat
VisitFile ==
    /\ pc = "scanning"
    /\ Top.listed
    /\ Top.index <= Len(Top.entries)
    /\ ~is_dir(FS, Entry)
    /\ LET r == ReadLines(FS, Entry) IN
       IF r.raised # "" /\ ~ExceptException(r.raised)
       THEN /\ Crash
            /\ file_count' = file_count + 1
            /\ UNCHANGED <<dir_count, line_count>>
       ELSE /\ file_count' = file_count + 1
            /\ line_count' = IF r.raised = "" THEN line_count + r.count
                             ELSE line_count
            /\ progress' = IF Heartbeat(file_count')
                           THEN Append(progress,
                                  [files |-> file_count', dirs |-> dir_count,
                                   lines |-> line_count'])
                           ELSE progress
            /\ stack' = [stack EXCEPT ![Len(stack)] =
                           [Top EXCEPT !.lines = Append(Top.lines, TreeLine),
                                       !.index = Top.index + 1]]
            /\ pc' = pc
            /\ UNCHANGED <<dir_count, reports>>
    /\ UNCHANGED <<fsid, ignore, start, calls>>

\* line 108: the loop is over, build_tree returns its lines
Return ==
    /\ pc = "scanning"
    /\ Top.listed
    /\ Top.index > Len(Top.entries)
    /\ Resume(Rest, Top.lines)
    /\ UNCHANGED <<fsid, ignore, file_count, dir_count, line_count, start, calls>>

Next == Main \/ Restart \/ ListDir \/ ListDenied \/ VisitDir \/ VisitFile \/ Return

Spec == Init /\ [][Next]_vars

SpecBig == InitBig /\ [][Next]_vars

(***************************************************************************)
(* Vocabulary of the properties.                                           *)
(***************************************************************************)
Range(s) == {s[i] : i \in 1..Len(s)}

\* the completed scans
Scans == Range(reports)

\* the nodes a report has a tree line for (its first line is the root's name)
LineNodes(r) == {r.tree_lines[i].node : i \in 2..Len(r.tree_lines)}

RECURSIVE Ancestors(_, _)
Ancestors(fs, n) ==
    IF n = 0 THEN {} ELSE {fs[n].parent} \cup Ancestors(fs, fs[n].parent)

RECURSIVE PathOf(_, _)
PathOf(fs, n) ==
    IF n = 0 THEN <<>> ELSE Append(PathOf(fs, fs[n].parent), fs[n].name)

\* the root-relative path of node n, with forward slashes
RelOf(n) == Join(PathOf(FS, n))

Distinct(s) == \A i, j \in 1..Len(s) : i # j => s[i] # s[j]

RECURSIVE SumOver(_, _)
SumOver(s, i) ==
    IF i > Len(s) THEN 0
    ELSE (IF FS[s[i].node].kind = "dir" THEN 0 ELSE ReadLines(FS, s[i].node).count)
         + SumOver(s, i + 1)

\* what a scan added to the counters is what its tree lines account for
Accounted(r) ==
    /\ r.dirs - r.start.dirs =
         Cardinality({i \in 2..Len(r.tree_lines) : FS[r.tree_lines[i].node].kind = "dir"})
    /\ r.files - r.start.files =
         Cardinality({i \in 2..Len(r.tree_lines) : FS[r.tree_lines[i].node].kind # "dir"})
    /\ r.lines - r.start.lines = SumOver(r.tree_lines, 2)

NonSymlinkEntries == {n \in DOMAIN FS \ {0} : FS[n].kind # "symlink"}
Listable(n) == \A a \in Ancestors(FS, n) : ~FS[a].denied
FromZeroNoPatterns(r) == ignore = <<>> /\ r.start.files = 0 /\ r.start.dirs = 0

(***************************************************************************)
(* C1, as stated: with no ignore pattern and the counters at zero before   *)
(* the scan, file_count + dir_count after the scan is the number of        *)
(* non-symlink entries of the tree, the root excluded.                     *)
(***************************************************************************)
C1_AllEntriesCounted ==
    \A r \in Scans :
        FromZeroNoPatterns(r) =>
            r.files + r.dirs = Cardinality(NonSymlinkEntries)

(***************************************************************************)
(* C1, amended: with no ignore pattern and the counters at zero before the *)
(* scan, file_count + dir_count after the scan is the number of            *)
(* non-symlink entries all of whose ancestor directories (the root         *)
(* included) could be listed.                                              *)
(***************************************************************************)
C1_ListableEntriesCounted ==
    \A r \in Scans :
        FromZeroNoPatterns(r) =>
            r.files + r.dirs =
                Cardinality({n \in NonSymlinkEntries : Listable(n)})

C1_Witness ==
    \E r \in Scans :
        /\ FromZeroNoPatterns(r)
        /\ r.files >= 2
        /\ \E n \in LineNodes(r) :
              FS[n].kind = "dir" /\ FS[n].denied /\ Children(FS, n) # {}

IsDirPattern(p) == p # <<>> /\ p[Len(p)] = "/"
AtOrBeneath(n, p) ==
    LET d == SubSeq(p, 1, Len(p) - 1) IN
    RelOf(n) = d \/ StartsWith(RelOf(n), d \o <<"/">>)

(***************************************************************************)
(* C2: with a directory-prefix pattern d/ in the ignore list, a scan has   *)
(* no tree line for the entry at path d nor for any entry beneath it,      *)
(* build_tree is never called on them, and the counters hold only what the *)
(* entries with a tree line account for.                                   *)
(***************************************************************************)
C2_DirPatternExcludesSubtree ==
    \A r \in Scans :
        /\ \A k \in 1..Len(ignore) :
              IsDirPattern(ignore[k]) =>
                \A n \in DOMAIN FS \ {0} :
                    AtOrBeneath(n, ignore[k]) =>
                        n \notin LineNodes(r) /\ n \notin Range(r.calls)
        /\ Accounted(r)

C2_Witness ==
    \E r \in Scans :
        /\ Len(r.tree_lines) >= 3
        /\ \E k \in 1..Len(ignore) :
              /\ IsDirPattern(ignore[k])
              /\ \E n, m \in DOMAIN FS \ {0} :
                    /\ FS[m].parent = n
                    /\ FS[n].kind = "dir"
                    /\ RelOf(n) = SubSeq(ignore[k], 1, Len(ignore[k]) - 1)
                    /\ FS[n].parent \in Range(r.calls)

NoSymlinkIn(lines) == \A i \in 1..Len(lines) : FS[lines[i].node].kind # "symlink"
RealDirs(cs) == Distinct(cs) /\ \A i \in 1..Len(cs) : FS[cs[i]].kind = "dir"

(***************************************************************************)
(* C3: whatever a symlink points to, no build_tree call is made on it, it  *)
(* is in no list of entries, it has no tree line and it is not counted;    *)
(* the directories build_tree is called on are distinct real directories.  *)
(***************************************************************************)
C3_SymlinksNeverVisited ==
    /\ \A i \in 1..Len(stack) :
          /\ FS[stack[i].node].kind = "dir"
          /\ \A j \in 1..Len(stack[i].entries) :
                FS[stack[i].entries[j]].kind # "symlink"
          /\ NoSymlinkIn(stack[i].lines)
    /\ RealDirs(calls)
    /\ \A r \in Scans :
          NoSymlinkIn(r.tree_lines) /\ RealDirs(r.calls) /\ Accounted(r)

C3_Witness ==
    \E r \in Scans :
        \E n \in DOMAIN FS \ {0} :
            /\ FS[n].kind = "symlink"
            /\ FS[n].target \in Ancestors(FS, n)
            /\ FS[n].parent \in Range(r.calls)

\* what a report shows: the text of its tree lines and its three metrics
Texts(r) == [i \in 1..Len(r.tree_lines) |-> r.tree_lines[i].text]
Shown(r) == <<Texts(r), r.files, r.dirs, r.lines>>

(***************************************************************************)
(* C4: for a fixed tree and a fixed ignore list any two scans that began   *)
(* with the counters at zero produce the same tree lines and the same      *)
(* final counters, in whatever order the filesystem listed each directory. *)
(***************************************************************************)
FromZero(r) == r.start = [files |-> 0, dirs |-> 0, lines |-> 0]
C4_ScansAgree ==
    \A r1, r2 \in Scans :
        FromZero(r1) /\ FromZero(r2) => Shown(r1) = Shown(r2)

\* the frames whose directory has been listed, and what the listing kept
ListedFrames == {i \in 1..Len(stack) : stack[i].listed}
Candidates(i) == {c \in Children(FS, stack[i].node) : FS[c].kind # "symlink"}
KeptBy(i) == Range(stack[i].entries)

HasSlash(str) == \E i \in 1..Len(str) : str[i] = "/"
\* a pattern `*s`, with s free of wildcards and of the separator
IsStarSuffix(p) ==
    /\ Len(p) >= 2
    /\ p[1] = "*"
    /\ \A i \in 2..Len(p) : p[i] \notin {"*", "?", "[", "/"}

(***************************************************************************)
(* C5, as stated: `*` does not match the path separator: when no pattern   *)
(* of the list has a `/`, an entry whose relative path has a `/` is not    *)
(* ignored.                                                                *)
(***************************************************************************)
C5_StarStopsAtSeparator ==
    \A i \in ListedFrames :
        \A c \in Candidates(i) :
            (/\ HasSlash(RelOf(c))
             /\ \A k \in 1..Len(ignore) : ~HasSlash(ignore[k]))
            => c \in KeptBy(i)

(***************************************************************************)
(* C5, amended: a glob is matched against the whole root-relative path and *)
(* `*` matches any run of characters, the separator included: a pattern    *)
(* `*s` ignores every entry whose relative path ends with s, at any depth, *)
(* and when it is the only pattern it ignores no other entry.              *)
(***************************************************************************)
C5_StarCrossesSeparator ==
    \A i \in ListedFrames :
        \A c \in Candidates(i) :
            \A k \in 1..Len(ignore) :
                IsStarSuffix(ignore[k]) =>
                    /\ EndsWith(RelOf(c), Tail(ignore[k])) => c \notin KeptBy(i)
                    /\ (Len(ignore) = 1 /\ c \notin KeptBy(i))
                           => EndsWith(RelOf(c), Tail(ignore[k]))

C5_Witness ==
    \E i \in ListedFrames :
        \E c \in Candidates(i) :
            /\ Len(ignore) = 1
            /\ IsStarSuffix(ignore[1])
            /\ HasSlash(RelOf(c))
            /\ EndsWith(RelOf(c), Tail(ignore[1]))
            /\ c \notin KeptBy(i)

(***************************************************************************)
(* C10: a directory-prefix pattern d/ excludes only the entry at path d    *)
(* and the entries beneath it: when every pattern of the list is a         *)
(* directory-prefix pattern, an entry that is neither at nor beneath any   *)
(* of their paths is kept.                                                 *)
(***************************************************************************)
C10_DirPatternExcludesOnlySubtree ==
    \A i \in ListedFrames :
        \A c \in Candidates(i) :
            (\A k \in 1..Len(ignore) :
                IsDirPattern(ignore[k]) /\ ~AtOrBeneath(c, ignore[k]))
            => c \in KeptBy(i)

\* build_tree is about to process an entry that is not a directory
FileStep ==
    /\ pc = "scanning"
    /\ Top.listed
    /\ Top.index <= Len(Top.entries)
    /\ FS[Entry].kind # "dir"
\* the loop of the same call moves on to the next sibling
NextSibling ==
    /\ pc' = "scanning"
    /\ Len(stack') = Len(stack)
    /\ stack'[Len(stack)].index = Top.index + 1
    /\ stack'[Len(stack)].entries = Top.entries

Undecodable(n) == \E i \in 1..Len(FS[n].content) : FS[n].content[i] = "xFF"
CannotOpen(n) == FS[n].denied \/ FS[n].kind = "other"

\* the lines of the text that is left of `bytes` without its invalid bytes:
\* one per terminator (LF, CR LF, CR) and one for an unterminated tail
TextLines(bytes) ==
    LET t == SelectSeq(bytes, LAMBDA b : b # "xFF") IN
    Cardinality({i \in 1..Len(t) :
        \/ t[i] = "LF"
        \/ (t[i] = "CR" /\ (i = Len(t) \/ t[i + 1] # "LF"))})
    + (IF t # <<>> /\ t[Len(t)] \notin {"LF", "CR"} THEN 1 ELSE 0)

(***************************************************************************)
(* C6, as stated: a visited file that cannot be decoded as UTF-8, or whose *)
(* read fails, adds 1 to file_count and nothing to line_count, and the     *)
(* scan goes on with the next sibling.                                     *)
(***************************************************************************)
C6_UndecodableAddsNoLines ==
    [][(FileStep /\ (Undecodable(Entry) \/ CannotOpen(Entry)))
        => /\ file_count' = file_count + 1
           /\ line_count' = line_count
           /\ NextSibling]_vars

(***************************************************************************)
(* C6, amended: a visited file whose open or read raises adds 1 to         *)
(* file_count and nothing to line_count, and the scan goes on with the     *)
(* next sibling; bytes that are not valid UTF-8 raise nothing: they are    *)
(* dropped, and the file adds 1 to file_count and the lines of the text    *)
(* that is left to line_count.                                             *)
(***************************************************************************)
C6_OnlyFailedReadsAddNoLines ==
    [][FileStep
        => /\ file_count' = file_count + 1
           /\ dir_count' = dir_count
           /\ NextSibling
           /\ CannotOpen(Entry) => line_count' = line_count
           /\ ~CannotOpen(Entry) =>
                 line_count' = line_count + TextLines(FS[Entry].content)]_vars

C6_Witness ==
    /\ pc = "scanning"
    /\ Top.listed
    /\ Top.lines # <<>>
    /\ Top.index > 1
    /\ LET n == Top.lines[Len(Top.lines)].node IN
          /\ n = Top.entries[Top.index - 1]
          /\ FS[n].kind = "file"
          /\ Undecodable(n)
          /\ ~FS[n].denied
          /\ line_count >= TextLines(FS[n].content)
          /\ TextLines(FS[n].content) >= 1

\* build_tree is about to list a directory it may not list
DeniedStep ==
    /\ pc = "scanning"
    /\ ~Top.listed
    /\ FS[Top.node].denied

(***************************************************************************)
(* C7: when listing a directory raises a permission error, build_tree      *)
(* returns no line and changes no counter; the caller keeps the line and   *)
(* the dir_count increment it made for the directory and goes on with the  *)
(* next sibling, so that every sibling the scan does not filter out has    *)
(* its line in the report and nothing beneath the directory has one.       *)
(***************************************************************************)
C7_DeniedListingSkipsSubtree ==
    /\ [][DeniedStep
           => /\ file_count' = file_count
              /\ dir_count' = dir_count
              /\ line_count' = line_count
              /\ IF Len(stack) = 1
                 THEN /\ pc' = "done"
                      /\ Len(reports') = Len(reports) + 1
                      /\ Len(reports'[Len(reports')].tree_lines) = 1
                 ELSE LET caller == stack[Len(stack) - 1] IN
                      /\ pc' = "scanning"
                      /\ stack' = [Rest EXCEPT ![Len(Rest)].index = caller.index + 1]
                      /\ caller.lines[Len(caller.lines)].node = Top.node
                      /\ dir_count > start.dirs]_vars
    /\ [](\A r \in Scans :
            \A n \in LineNodes(r) :
                (FS[n].kind = "dir" /\ FS[n].denied) =>
                    \A m \in DOMAIN FS \ {0} :
                        /\ n \in Ancestors(FS, m) => m \notin LineNodes(r)
                        /\ (/\ FS[m].parent = FS[n].parent
                            /\ FS[m].kind # "symlink"
                            /\ ~is_ignored(RelOf(m), ignore))
                           => m \in LineNodes(r))

C7_Witness ==
    \E r \in Scans :
        \E i, j \in 2..Len(r.tree_lines) :
            /\ i < j
            /\ FS[r.tree_lines[i].node].kind = "dir"
            /\ FS[r.tree_lines[i].node].denied
            /\ Children(FS, r.tree_lines[i].node) # {}
            /\ FS[r.tree_lines[j].node].parent = FS[r.tree_lines[i].node].parent
            /\ r.dirs >= 2

Multiple(v) == v % ProgressEvery = 0 /\ v > 0

(***************************************************************************)
(* C9, as stated: a notification is emitted only right after the file that *)
(* brings file_count to a positive multiple of 200 is counted: no two      *)
(* notifications of a scan carry the same file_count, and a complete scan  *)
(* (from zero) emits exactly floor(file_count / 200) of them.              *)
(***************************************************************************)
C9_OncePerPeriod ==
    \A r \in Scans :
        /\ \A i, j \in 1..Len(r.progress) :
              i # j => r.progress[i].files # r.progress[j].files
        /\ FromZero(r) => Len(r.progress) = r.files \div ProgressEvery

\* the step completes an entry of the loop of some call: a file, or a
\* directory whose build_tree call returns to the loop
CompletesEntry ==
    /\ pc = "scanning"
    /\ pc' = "scanning"
    /\ \/ /\ Len(stack') = Len(stack)
          /\ stack'[Len(stack)].index = Top.index + 1
       \/ /\ Len(stack') = Len(stack) - 1
          /\ stack'[Len(stack')].index = stack[Len(stack')].index + 1

(***************************************************************************)
(* C9, amended: a notification is emitted each time an entry has been      *)
(* processed (a file, or a directory once its build_tree call has          *)
(* returned) and file_count is then a positive multiple of 200, and at no  *)
(* other time; it carries the counters of that moment.  So every           *)
(* notification carries a positive multiple of 200 and every multiple of   *)
(* 200 that file_count reaches during the scan is notified, but the same   *)
(* file_count may be notified more than once.                              *)
(***************************************************************************)
C9_HeartbeatAfterEachEntry ==
    /\ [][pc = "scanning" =>
            progress' = IF CompletesEntry /\ Multiple(file_count')
                        THEN Append(progress,
                               [files |-> file_count', dirs |-> dir_count',
                                lines |-> line_count'])
                        ELSE progress]_vars
    /\ [](/\ \A i \in 1..Len(progress) : Multiple(progress[i].files)
          /\ \A v \in (start.files + 1)..file_count :
                Multiple(v) => \E i \in 1..Len(progress) : progress[i].files = v
          /\ \A r \in Scans :
                Len(r.progress) >=
                    (r.files \div ProgressEvery) - (r.start.files \div ProgressEvery))

C9_Witness ==
    \E r \in Scans :
        /\ FromZero(r)
        /\ \E i, j \in 1..Len(r.progress) :
              i < j /\ r.progress[i].files = r.progress[j].files
        /\ Len(r.progress) > r.files \div ProgressEvery

=============================================================================
